---------------------------- MODULE Spec2Model ----------------------------
(***************************************************************************)
(* Model of five_cliques.py: the search for five pairwise letter-disjoint  *)
(* five-letter words.  A character is the integer ord(char) - ord("a"), a  *)
(* word is a sequence of characters, a letter set is the integer bit mask  *)
(* that letter_set computes.                                               *)
(***************************************************************************)
EXTENDS Integers, Sequences, FiniteSets, TLC

VARIABLES
    input,      \* the lines of words_alpha.txt, as read by read_words
    anagrams,   \* main's anagrams: letter set -> list of words
    graph,      \* main's graph: letter set -> set of later disjoint letter sets
    pending,    \* the part of anagram_sets main's loop has not visited yet
    stack,      \* the activation records of merge, outermost first
    prune,      \* the module-level set __prune
    cliques,    \* main's list cliques
    answers,    \* main's list answers
    pc,         \* main's position
    invoked,    \* history: every invocation of merge of the current run
    run         \* number of the current execution of main in this process

vars == <<input, anagrams, graph, pending, stack, prune, cliques, answers,
          pc, invoked, run>>

----------------------------------------------------------------------------
(* Bounds of the model *)

\* number of lines of Corpus an input file is drawn from
MaxLines == 10

\* number of lines of Corpus the file of a later execution of main is drawn from
MaxRerunLines == 8

\* executions of main in one process
MaxRuns == 2

\* number of lines of Corpus a file is drawn from when main's loop may visit
\* the keys in any order
MaxAnyOrderLines == 7

----------------------------------------------------------------------------
(* Program constants *)

TOTAL_LENGTH == 5
TOTAL_LENGTH_MINUS_ONE == 4

\* ord("\n") - ord("a"), ord(" ") - ord("a"), ...: what str.strip removes
WHITESPACE == {9 - 97, 10 - 97, 11 - 97, 12 - 97, 13 - 97, 32 - 97}

NL == 10 - 97

----------------------------------------------------------------------------
(* Integer bit operations: Python's &, | and << on non-negative integers *)

\* & and | of two single bits, and of two 5-bit digits
RECURSIVE DigitOp(_, _, _, _)
DigitOp(or, a, b, n) ==
    IF n = 0 THEN 0
    ELSE 2 * DigitOp(or, a \div 2, b \div 2, n - 1)
         + (IF or THEN (IF a % 2 = 1 \/ b % 2 = 1 THEN 1 ELSE 0)
                  ELSE (IF a % 2 = 1 /\ b % 2 = 1 THEN 1 ELSE 0))

AndDigit == [a \in 0..31 |-> [b \in 0..31 |-> DigitOp(FALSE, a, b, 5)]]

OrDigit == [a \in 0..31 |-> [b \in 0..31 |-> DigitOp(TRUE, a, b, 5)]]

\* a & b, five bits at a time
RECURSIVE BitAnd(_, _)
BitAnd(a, b) ==
    IF a = 0 \/ b = 0 THEN 0
    ELSE 32 * BitAnd(a \div 32, b \div 32) + AndDigit[a % 32][b % 32]

\* a | b, five bits at a time
RECURSIVE BitOr(_, _)
BitOr(a, b) ==
    IF a = 0 THEN b
    ELSE IF b = 0 THEN a
    ELSE 32 * BitOr(a \div 32, b \div 32) + OrDigit[a % 32][b % 32]

Shl(n) == 2 ^ n

----------------------------------------------------------------------------
(* letter_set, bit_count *)

RECURSIVE letter_set_from(_, _)
letter_set_from(ret, word) ==
    IF word = <<>> THEN ret
    ELSE letter_set_from(BitOr(ret, Shl(Head(word))), Tail(word))

letter_set(word) == letter_set_from(0, word)

RECURSIVE bit_count(_)
bit_count(num) ==
    IF num = 0 THEN 0 ELSE 1 + bit_count(BitAnd(num, num - 1))

ascii_lowercase == [i \in 1..26 |-> i - 1]

ALL_LETTERS == letter_set(ascii_lowercase)

----------------------------------------------------------------------------
(* read_words *)

RECURSIVE lstrip(_)
lstrip(s) ==
    IF s # <<>> /\ Head(s) \in WHITESPACE THEN lstrip(Tail(s)) ELSE s

RECURSIVE rstrip(_)
rstrip(s) ==
    IF s # <<>> /\ s[Len(s)] \in WHITESPACE
    THEN rstrip(SubSeq(s, 1, Len(s) - 1)) ELSE s

strip(s) == rstrip(lstrip(s))

\* anagrams[char_set].append(word) on a defaultdict(list)
AppendWord(d, char_set, word) ==
    [k \in DOMAIN d \cup {char_set} |->
        IF k = char_set
        THEN (IF char_set \in DOMAIN d THEN Append(d[char_set], word)
              ELSE <<word>>)
        ELSE d[k]]

RECURSIVE read_words_from(_, _)
read_words_from(d, lines) ==
    IF lines = <<>> THEN d
    ELSE LET word == strip(Head(lines)) IN
         IF Len(word) # 5 THEN read_words_from(d, Tail(lines))
         ELSE LET char_set == letter_set(word) IN
              IF bit_count(char_set) # 5
              THEN read_words_from(d, Tail(lines))
              ELSE read_words_from(AppendWord(d, char_set, word), Tail(lines))

read_words(lines) == read_words_from(<<>>, lines)

----------------------------------------------------------------------------
(* sorted() on a set of integers *)

Min(S) == CHOOSE x \in S : \A y \in S : x <= y

RECURSIVE sorted(_)
sorted(S) ==
    IF S = {} THEN <<>> ELSE <<Min(S)>> \o sorted(S \ {Min(S)})

----------------------------------------------------------------------------
(* neighbor_graph *)

\* a graph that forgets the order of the two letter sets
neighbor_graph_unordered(d) ==
    [char_set \in DOMAIN d |->
        {other_set \in DOMAIN d :
            other_set # char_set /\ BitAnd(char_set, other_set) = 0}]

\* a graph whose test lost its "not"
neighbor_graph_overlapping(d) ==
    LET anagram_sets == sorted(DOMAIN d) IN
    [char_set \in {anagram_sets[i] : i \in 1..Len(anagram_sets)} |->
        LET i == CHOOSE j \in 1..Len(anagram_sets) : anagram_sets[j] = char_set
        IN {anagram_sets[j] : j \in
               {k \in (i + 1)..Len(anagram_sets) :
                   BitAnd(char_set, anagram_sets[k]) # 0}}]

neighbor_graph(d) ==
    LET anagram_sets == sorted(DOMAIN d) IN
    [char_set \in {anagram_sets[i] : i \in 1..Len(anagram_sets)} |->
        LET i == CHOOSE j \in 1..Len(anagram_sets) : anagram_sets[j] = char_set
        IN {anagram_sets[j] : j \in
               {k \in (i + 1)..Len(anagram_sets) :
                   BitAnd(char_set, anagram_sets[k]) = 0}}]

----------------------------------------------------------------------------
(* untangle_words *)

Reverse(s) == [i \in 1..Len(s) |-> s[Len(s) + 1 - i]]

RECURSIVE untangle_from(_, _)
untangle_from(remain, ws) ==
    IF ws = <<>> THEN <<>>
    ELSE LET word == BitAnd(Head(ws), remain)
         IN <<word>> \o untangle_from(remain - word, Tail(ws))

\* an untangling that forgets to walk the unions from the oldest one
untangle_words_forward(words) == untangle_from(ALL_LETTERS, words)

untangle_words(words) == untangle_from(ALL_LETTERS, Reverse(words))

----------------------------------------------------------------------------
(* expand, and the sorted() calls that build answers *)

\* itertools.product of a list of lists, last position varying fastest
RECURSIVE product(_)
product(lists) ==
    IF lists = <<>> THEN << <<>> >>
    ELSE LET rest == product(Tail(lists))
             first == Head(lists)
             row(i) == [j \in 1..Len(rest) |-> <<first[i]>> \o rest[j]]
             RECURSIVE rows(_)
             rows(i) == IF i > Len(first) THEN <<>> ELSE row(i) \o rows(i + 1)
         IN rows(1)

expand(word_list, d) ==
    product([i \in 1..Len(word_list) |-> d[word_list[i]]])

\* Python's < on two strings
RECURSIVE StrLess(_, _)
StrLess(a, b) ==
    IF b = <<>> THEN FALSE
    ELSE IF a = <<>> THEN TRUE
    ELSE IF Head(a) # Head(b) THEN Head(a) < Head(b)
    ELSE StrLess(Tail(a), Tail(b))

\* Python's < on two tuples of strings
RECURSIVE TupleLess(_, _)
TupleLess(a, b) ==
    IF b = <<>> THEN FALSE
    ELSE IF a = <<>> THEN TRUE
    ELSE IF Head(a) # Head(b) THEN StrLess(Head(a), Head(b))
    ELSE TupleLess(Tail(a), Tail(b))

\* sorted() is stable: an element goes after the elements that are not greater
RECURSIVE InsertStr(_, _)
InsertStr(x, s) ==
    IF s = <<>> THEN <<x>>
    ELSE IF StrLess(x, Head(s)) THEN <<x>> \o s
    ELSE <<Head(s)>> \o InsertStr(x, Tail(s))

RECURSIVE sorted_strs(_)
sorted_strs(s) ==
    IF s = <<>> THEN <<>>
    ELSE InsertStr(s[Len(s)], sorted_strs(SubSeq(s, 1, Len(s) - 1)))

RECURSIVE InsertTuple(_, _)
InsertTuple(x, s) ==
    IF s = <<>> THEN <<x>>
    ELSE IF TupleLess(x, Head(s)) THEN <<x>> \o s
    ELSE <<Head(s)>> \o InsertTuple(x, Tail(s))

RECURSIVE sorted_tuples(_)
sorted_tuples(s) ==
    IF s = <<>> THEN <<>>
    ELSE InsertTuple(s[Len(s)], sorted_tuples(SubSeq(s, 1, Len(s) - 1)))

\* tuple(sorted(expanded_words)) for cliq in cliques for expanded_words in expand(cliq, anagrams)
RECURSIVE canonical_tuples(_, _)
canonical_tuples(cs, d) ==
    IF cs = <<>> THEN <<>>
    ELSE LET e == expand(Head(cs), d)
         IN [i \in 1..Len(e) |-> sorted_strs(e[i])] \o canonical_tuples(Tail(cs), d)

build_answers(cs, d) == sorted_tuples(canonical_tuples(cs, d))

----------------------------------------------------------------------------
(* The input files *)

\* "abcde" is <<0, 1, 2, 3, 4>>; every line ends with a newline
Line(w) == w \o <<NL>>

Corpus ==
    << Line(<<0, 1, 2, 3, 4>>),        \* abcde
       Line(<<5, 6, 7, 8, 9>>),        \* fghij
       Line(<<10, 11, 12, 13, 14>>),   \* klmno
       Line(<<15, 16, 17, 18, 19>>),   \* pqrst
       Line(<<20, 21, 22, 23, 24>>),   \* uvwxy
       Line(<<0, 1, 2, 3, 5>>),        \* abcdf
       Line(<<4, 6, 7, 8, 9>>),        \* eghij
       Line(<<10, 11, 12, 13, 20>>),   \* klmnu
       Line(<<0, 1, 2, 3, 4>>),        \* abcde, a second time
       Line(<<0, 0, 1, 2, 3>>),        \* aabcd
       Line(<<20, 21, 22, 23>>),       \* uvwx
       Line(<<4, 3, 2, 1, 0>>) >>      \* edcba

RECURSIVE Pick(_, _)
Pick(S, i) ==
    IF i > Len(Corpus) THEN <<>>
    ELSE (IF i \in S THEN <<Corpus[i]>> ELSE <<>>) \o Pick(S, i + 1)

\* the files made of some of the first n lines of Corpus, in Corpus order
Files(n) ==
    LET m == IF n < Len(Corpus) THEN n ELSE Len(Corpus)
    IN {Pick(S, 1) : S \in SUBSET (1..m)}

----------------------------------------------------------------------------
(* merge *)

Top == stack[Len(stack)]

num_words(f) == Len(f.words) + 1

Frame(last_word, words, neighbors, chosen) ==
    [last_word |-> last_word, words |-> words, neighbors |-> neighbors,
     todo |-> neighbors, result |-> FALSE, at |-> "enter", rv |-> FALSE,
     base |-> Len(cliques), chosen |-> chosen]

Invocation(f) ==
    [last_word |-> f.last_word, neighbors |-> f.neighbors,
     num_words |-> num_words(f), chosen |-> f.chosen]

SetTop(f) == [stack EXCEPT ![Len(stack)] = f]

\* a bound that gives up one candidate too early
BoundPruneEarly(neighbors, n) == Cardinality(neighbors) + n <= TOTAL_LENGTH

\* a bound that lets a call with no candidate left reach the base case
BoundPruneLate(neighbors, n) ==
    Cardinality(neighbors) + n < TOTAL_LENGTH_MINUS_ONE

\* if len(neighbors) + num_words < TOTAL_LENGTH: return False
BoundPrune(neighbors, n) == Cardinality(neighbors) + n < TOTAL_LENGTH

\* candidates that are handed down unchanged
NextNeighborsAll(neighbors, g, neighbor_word) == neighbors

\* neighbors=neighbors & graph[neighbor_word]
NextNeighbors(neighbors, g, neighbor_word) == neighbors \cap g[neighbor_word]

\* a cache that records every union it has tried
CheckedAfterAlways(p, shared_letters, ok) == p \cup {shared_letters}

\* if merge(...): result = True  else: add_to_checked(shared_letters)
CheckedAfter(p, shared_letters, ok) ==
    IF ok THEN p ELSE p \cup {shared_letters}

MergeEnter ==
    /\ pc = "search" /\ stack # <<>> /\ Top.at = "enter"
    /\ stack' = SetTop(
         IF BoundPrune(Top.neighbors, num_words(Top))
         THEN [Top EXCEPT !.at = "ret", !.rv = FALSE]
         ELSE IF num_words(Top) = TOTAL_LENGTH_MINUS_ONE
              THEN [Top EXCEPT !.at = "base"]
              ELSE [Top EXCEPT !.at = "loop"])
    /\ UNCHANGED <<input, anagrams, graph, pending, prune, cliques, answers,
                   pc, invoked, run>>

MergeBase ==
    /\ pc = "search" /\ stack # <<>> /\ Top.at = "base"
    /\ \E neighbor_word \in Top.todo :
         LET all_letters == BitOr(neighbor_word, Top.last_word) IN
         /\ cliques' = Append(cliques,
                untangle_words(<<all_letters, Top.last_word>> \o Top.words))
         /\ stack' = SetTop([Top EXCEPT !.todo = @ \ {neighbor_word}])
    /\ UNCHANGED <<input, anagrams, graph, pending, prune, answers, pc,
                   invoked, run>>

MergeBaseReturn ==
    /\ pc = "search" /\ stack # <<>> /\ Top.at = "base" /\ Top.todo = {}
    /\ stack' = SetTop([Top EXCEPT !.at = "ret", !.rv = TRUE])
    /\ UNCHANGED <<input, anagrams, graph, pending, prune, cliques, answers,
                   pc, invoked, run>>

MergeLoop ==
    /\ pc = "search" /\ stack # <<>> /\ Top.at = "loop"
    /\ \E neighbor_word \in Top.todo :
         LET rest == [Top EXCEPT !.todo = @ \ {neighbor_word}]
             shared_letters == BitOr(Top.last_word, neighbor_word)
             callee == Frame(shared_letters, <<Top.last_word>> \o Top.words,
                             NextNeighbors(Top.neighbors, graph, neighbor_word),
                             Append(Top.chosen, neighbor_word))
         IN IF BitAnd(Top.last_word, neighbor_word) # 0
            THEN stack' = SetTop(rest) /\ invoked' = invoked
            ELSE IF shared_letters \in prune
                 THEN stack' = SetTop(rest) /\ invoked' = invoked
                 ELSE /\ stack' = Append(SetTop(rest), callee)
                      /\ invoked' = invoked \cup {Invocation(callee)}
    /\ UNCHANGED <<input, anagrams, graph, pending, prune, cliques, answers,
                   pc, run>>

MergeLoopReturn ==
    /\ pc = "search" /\ stack # <<>> /\ Top.at = "loop" /\ Top.todo = {}
    /\ stack' = SetTop([Top EXCEPT !.at = "ret", !.rv = Top.result])
    /\ UNCHANGED <<input, anagrams, graph, pending, prune, cliques, answers,
                   pc, invoked, run>>

\* the callee returns: main drops the value, merge's loop acts on it
MergeReturn ==
    /\ pc = "search" /\ stack # <<>> /\ Top.at = "ret"
    /\ IF Len(stack) = 1
       THEN stack' = <<>> /\ prune' = prune
       ELSE LET caller == stack[Len(stack) - 1] IN
            /\ stack' = [SubSeq(stack, 1, Len(stack) - 1)
                            EXCEPT ![Len(stack) - 1] =
                                [caller EXCEPT !.result = @ \/ Top.rv]]
            /\ prune' = CheckedAfter(prune, Top.last_word, Top.rv)
    /\ UNCHANGED <<input, anagrams, graph, pending, cliques, answers, pc,
                   invoked, run>>

----------------------------------------------------------------------------
(* main *)

ReadWords ==
    /\ pc = "read"
    /\ anagrams' = read_words(input)
    /\ pc' = "graph"
    /\ UNCHANGED <<input, graph, pending, stack, prune, cliques, answers,
                   invoked, run>>

NeighborGraph ==
    /\ pc = "graph"
    /\ graph' = neighbor_graph(anagrams)
    /\ pending' = sorted(DOMAIN anagrams)
    /\ cliques' = <<>>
    /\ pc' = "search"
    /\ UNCHANGED <<input, anagrams, stack, prune, answers, invoked, run>>

\* for word in anagram_sets: merge(word, neighbors=graph[word], ...)
MainLoop ==
    /\ pc = "search" /\ stack = <<>> /\ pending # <<>>
    /\ LET word == Head(pending)
           callee == Frame(word, <<>>, graph[word], <<word>>)
       IN /\ stack' = <<callee>>
          /\ invoked' = invoked \cup {Invocation(callee)}
    /\ pending' = Tail(pending)
    /\ UNCHANGED <<input, anagrams, graph, prune, cliques, answers, pc, run>>

\* the same loop, visiting the keys in any order
MainLoopAnyOrder ==
    /\ pc = "search" /\ stack = <<>> /\ pending # <<>>
    /\ \E i \in 1..Len(pending) :
         LET word == pending[i]
             callee == Frame(word, <<>>, graph[word], <<word>>)
         IN /\ stack' = <<callee>>
            /\ invoked' = invoked \cup {Invocation(callee)}
            /\ pending' = SubSeq(pending, 1, i - 1)
                            \o SubSeq(pending, i + 1, Len(pending))
    /\ UNCHANGED <<input, anagrams, graph, prune, cliques, answers, pc, run>>

WriteAnswers ==
    /\ pc = "search" /\ stack = <<>> /\ pending = <<>>
    /\ answers' = build_answers(cliques, anagrams)
    /\ pc' = "done"
    /\ UNCHANGED <<input, anagrams, graph, pending, stack, prune, cliques,
                   invoked, run>>

\* main is executed again in the same process: its locals are new, the
\* module-level __prune is the one the earlier execution left
Rerun ==
    /\ pc = "done" /\ run < MaxRuns
    /\ input' \in Files(MaxRerunLines)
    /\ anagrams' = <<>> /\ graph' = <<>> /\ pending' = <<>>
    /\ cliques' = <<>> /\ answers' = <<>> /\ invoked' = {}
    /\ pc' = "read"
    /\ run' = run + 1
    /\ UNCHANGED <<stack, prune>>

InitWith(files) ==
    /\ input \in files
    /\ anagrams = <<>> /\ graph = <<>> /\ pending = <<>> /\ stack = <<>>
    /\ prune = {}
    /\ cliques = <<>> /\ answers = <<>>
    /\ pc = "read"
    /\ invoked = {}
    /\ run = 1

Init == InitWith(Files(MaxLines))

Search ==
    \/ MergeEnter \/ MergeBase \/ MergeBaseReturn
    \/ MergeLoop \/ MergeLoopReturn \/ MergeReturn

Next ==
    \/ ReadWords \/ NeighborGraph \/ MainLoop \/ Search \/ WriteAnswers

Spec == Init /\ [][Next]_vars

NextAnyOrder ==
    \/ ReadWords \/ NeighborGraph \/ MainLoopAnyOrder \/ Search \/ WriteAnswers

InitAnyOrder == InitWith(Files(MaxAnyOrderLines))

SpecAnyOrder == InitAnyOrder /\ [][NextAnyOrder]_vars

InitRerun == InitWith(Files(MaxRerunLines))

NextRerun == Next \/ Rerun

SpecRerun == InitRerun /\ [][NextRerun]_vars

----------------------------------------------------------------------------
(* Vocabulary of the properties *)

Keys == DOMAIN anagrams

Range(s) == {s[i] : i \in 1..Len(s)}

PairwiseDisjoint(S) == \A a, b \in S : a # b => BitAnd(a, b) = 0

\* the sets of five pairwise-disjoint keys of the dictionary
Quintets == {S \in SUBSET Keys : Cardinality(S) = 5 /\ PairwiseDisjoint(S)}

RECURSIVE OrAll(_)
OrAll(S) ==
    IF S = {} THEN 0
    ELSE LET x == CHOOSE y \in S : TRUE IN BitOr(x, OrAll(S \ {x}))

\* the k numerically smallest elements of S
Smallest(S, k) == {x \in S : Cardinality({y \in S : y < x}) < k}

SearchOver ==
    \/ pc = "done"
    \/ pc = "search" /\ pending = <<>> /\ stack = <<>>

abcde == letter_set(<<0, 1, 2, 3, 4>>)
abcdf == letter_set(<<0, 1, 2, 3, 5>>)

----------------------------------------------------------------------------
(* C1: once main's loop has called merge for every key, every set of five  *)
(* pairwise-disjoint keys of the dictionary is in cliques, whatever the    *)
(* order in which the keys were visited and the candidates iterated.       *)
SearchComplete ==
    SearchOver =>
        \A S \in Quintets : \E i \in 1..Len(cliques) : Range(cliques[i]) = S

\* a finished search that found two quintets, the one that starts at the
\* larger key first, and that recorded dead ends on the way
SearchCompleteWitness ==
    /\ pc = "done"
    /\ Cardinality(Quintets) >= 2
    /\ Len(cliques) >= 2
    /\ cliques[1][1] > cliques[2][1]
    /\ prune # {}

(* C2: no union held in the prune cache is the union of the first k sets   *)
(* (k in 1..4) of five pairwise-disjoint keys w1 < ... < w5, so a skip at  *)
(* checked_already never drops a quintet.                                  *)
PruneSound ==
    prune # {} =>
        \A S \in Quintets : \A k \in 1..4 : OrAll(Smallest(S, k)) \notin prune

\* merge's loop is about to skip a candidate whose union is cached, in a
\* dictionary that holds a quintet
PruneSoundWitness ==
    /\ pc = "search" /\ stack # <<>> /\ Top.at = "loop"
    /\ Quintets # {}
    /\ \E neighbor_word \in Top.todo :
          BitOr(Top.last_word, neighbor_word) \in prune

(* C3: answers holds no canonical word tuple twice, and is sorted, for     *)
(* any input file, one that repeats a word included.                       *)
AnswersDeduplicated ==
    pc = "done" =>
        \A i, j \in 1..Len(answers) :
            i < j => TupleLess(answers[i], answers[j])

(* C4: when an execution of main begins, the prune cache is empty.         *)
PruneEmptyAtRunStart == pc = "read" => prune = {}

(* C5: every key of anagrams is a key of the graph, and B is in graph[A]   *)
(* exactly when A and B share no letter and A < B.                         *)
GraphCorrect ==
    pc \in {"search", "done"} =>
        /\ DOMAIN graph = Keys
        /\ \A A, B \in Keys :
              B \in graph[A] <=> (BitAnd(A, B) = 0 /\ A < B)

\* a graph with an edge, with a disjoint pair in the backward direction and
\* with an overlapping pair
GraphCorrectWitness ==
    /\ pc = "search"
    /\ \E A, B \in Keys : B \in graph[A]
    /\ \E A, B \in Keys : A > B /\ BitAnd(A, B) = 0 /\ B \notin graph[A]
    /\ \E A, B \in Keys : A < B /\ BitAnd(A, B) # 0

\* the shape of the entries of cliques, and what an append adds
CliqueShape ==
    \A i \in 1..Len(cliques) :
        /\ Len(cliques[i]) = 5
        /\ \A j \in 1..5 : cliques[i][j] \in Keys
        /\ \A j, k \in 1..5 : j < k =>
              /\ cliques[i][j] < cliques[i][k]
              /\ BitAnd(cliques[i][j], cliques[i][k]) = 0

CliqueIsPath ==
    cliques' # cliques =>
        \E neighbor_word \in Top.todo :
            cliques' = Append(cliques, Append(Top.chosen, neighbor_word))

(* C6: every tuple in cliques is five keys of the dictionary, pairwise     *)
(* disjoint, in strictly increasing order, and the tuple merge appends is  *)
(* the sets chosen along the path followed by the candidate of the base    *)
(* case.                                                                   *)
CliquesAreChosenKeys == [] CliqueShape /\ [][CliqueIsPath]_vars

\* two tuples were appended, one of them on the path that starts at abcdf
CliquesAreChosenKeysWitness ==
    /\ Len(cliques) >= 2
    /\ \E i \in 1..Len(cliques) : cliques[i][1] = abcdf

\* the nesting of the activations of merge, and a count of the steps ahead
CallsShrink ==
    /\ \A i \in 2..Len(stack) :
          /\ stack[i].neighbors \subseteq stack[i - 1].neighbors
          /\ stack[i].neighbors # stack[i - 1].neighbors
    /\ \A i \in 1..Len(stack) :
          num_words(stack[i]) = i /\ num_words(stack[i]) <= 4

\* the most steps a call of merge with n words takes, its return included,
\* in a dictionary of at most Len(input) keys
RECURSIVE CallSteps(_)
CallSteps(n) ==
    IF n >= TOTAL_LENGTH_MINUS_ONE THEN Len(input) + 3
    ELSE 3 + Len(input) * (1 + CallSteps(n + 1))

\* the steps the i-th activation of merge still takes, nested calls excluded
FrameSteps(i) ==
    LET f == stack[i] IN
    CASE f.at = "enter" -> CallSteps(i)
      [] f.at = "loop" -> 2 + Cardinality(f.todo) * (1 + CallSteps(i + 1))
      [] f.at = "base" -> 2 + Cardinality(f.todo)
      [] f.at = "ret" -> 1

RECURSIVE StackSteps(_)
StackSteps(i) == IF i = 0 THEN 0 ELSE FrameSteps(i) + StackSteps(i - 1)

StepsLeft ==
    CASE pc = "read" -> 3 + Len(input) * (1 + CallSteps(1))
      [] pc = "graph" -> 2 + Len(input) * (1 + CallSteps(1))
      [] pc = "search" ->
            1 + Len(pending) * (1 + CallSteps(1)) + StackSteps(Len(stack))
      [] pc = "done" -> 0

StepsLeftDecrease == StepsLeft' < StepsLeft /\ StepsLeft' >= 0

(* C7: the run terminates: every step lowers a natural number, the steps   *)
(* still ahead at most, so a run has no infinite sequence of steps; the    *)
(* neighbors of every nested call of merge are a strict subset of its      *)
(* caller's, and num_words is never above 4.                               *)
Terminates == [] CallsShrink /\ [][StepsLeftDecrease]_vars

\* four nested calls, the innermost with a candidate left
TerminatesWitness ==
    /\ Len(stack) = 4
    /\ stack[4].neighbors # {}
    /\ stack[2].neighbors # stack[3].neighbors

(* C8: no two entries of cliques hold the same five letter sets, in the    *)
(* same or in another order.                                               *)
NoDuplicateCliques ==
    \A i, j \in 1..Len(cliques) :
        i # j => Range(cliques[i]) # Range(cliques[j])

\* a finished search with two tuples that share three of their sets
NoDuplicateCliquesWitness ==
    /\ pc = "done"
    /\ \E i, j \in 1..Len(cliques) :
          /\ i # j
          /\ Cardinality(Range(cliques[i]) \cap Range(cliques[j])) = 3

\* what a return value says, and when the cache grows
ReturnValue ==
    \A i \in 1..Len(stack) :
        /\ stack[i].at = "ret" => (stack[i].rv <=> Len(cliques) > stack[i].base)
        /\ stack[i].at = "base" => stack[i].neighbors # {}
        /\ stack[i].result => Len(cliques) > stack[i].base

PruneAfterFailure ==
    prune' # prune => Top.at = "ret" /\ ~Top.rv /\ Len(cliques) = Top.base

(* C9: merge returns True exactly when the invocation appended a clique;   *)
(* the base case is only reached with a candidate; a union enters the      *)
(* prune cache only after a call that appended nothing.                    *)
ReturnsTrueIffFound == [] ReturnValue /\ [][PruneAfterFailure]_vars

\* a nested call returns False after cliques were found elsewhere, and its
\* union is about to enter the cache
ReturnsTrueIffFoundWitness ==
    /\ Len(stack) >= 2
    /\ Top.at = "ret" /\ ~Top.rv
    /\ Len(cliques) > 0

(* C10: two invocations of merge with the same last_word get the same      *)
(* neighbors and num_words; neighbors is the set of keys that are disjoint *)
(* from last_word and greater than every chosen set.                       *)
CandidatesByUnion ==
    /\ \A r1, r2 \in invoked :
          r1.last_word = r2.last_word =>
              r1.neighbors = r2.neighbors /\ r1.num_words = r2.num_words
    /\ \A r \in invoked :
          /\ r.last_word = OrAll(Range(r.chosen))
          /\ r.neighbors =
                {k \in Keys : /\ BitAnd(k, r.last_word) = 0
                              /\ \A c \in Range(r.chosen) : k > c}

\* merge was invoked twice on one union that two different choices reach,
\* with different largest chosen sets
CandidatesByUnionWitness ==
    \E r1, r2 \in invoked :
        /\ r1.last_word = r2.last_word
        /\ r1.chosen # r2.chosen
        /\ r1.chosen[Len(r1.chosen)] # r2.chosen[Len(r2.chosen)]

=============================================================================
